---- MODULE Spec2Model ----
(***************************************************************************)
(* Model of media-organizer-mvp (src/main.go): the /api/scan handler       *)
(* (filepath.Walk + existence check + insert), the /api/stats and          *)
(* /api/media handlers, the sqlite table `media`, and the filesystem the   *)
(* walk reads.                                                             *)
(*                                                                         *)
(* Strings the code inspects character by character (paths, names,         *)
(* extensions) are sequences of one-character strings, so that             *)
(* filepath.Ext and strings.ToLower are computed as the code computes      *)
(* them.                                                                   *)
(***************************************************************************)
EXTENDS Integers, Sequences, FiniteSets, TLC

VARIABLES
    db,      \* table media: the rows in rowid order
    fs,      \* the filesystem: removed nodes, unreadable directories, file sizes
    fsver,   \* number of changes made to the filesystem so far
    now,     \* the clock CURRENT_TIMESTAMP reads (whole seconds)
    scan,    \* per scan request: position of the handler scanDirectory
    stats,   \* the handler getStats: its position and the three counts
    media    \* the handler getMediaItems: its response

vars == <<db, fs, fsver, now, scan, stats, media>>

\* ---------------------------------------------------------------- bounds
MaxFsEvents == 1
MaxClock == 1

\* ------------------------------------------------------------ characters
Upper == <<"A","B","C","D","E","F","G","H","I","J","K","L","M",
           "N","O","P","Q","R","S","T","U","V","W","X","Y","Z">>
Lower == <<"a","b","c","d","e","f","g","h","i","j","k","l","m",
           "n","o","p","q","r","s","t","u","v","w","x","y","z">>
Digits == <<"0","1","2","3","4","5","6","7","8","9">>

IndexIn(c, s) == IF \E i \in DOMAIN s : s[i] = c
                 THEN CHOOSE i \in DOMAIN s : s[i] = c
                 ELSE 0

\* byte value of a character (ASCII), the order sort.Strings compares by
Code(c) ==
    IF IndexIn(c, Upper) > 0 THEN 64 + IndexIn(c, Upper)
    ELSE IF IndexIn(c, Lower) > 0 THEN 96 + IndexIn(c, Lower)
    ELSE IF IndexIn(c, Digits) > 0 THEN 47 + IndexIn(c, Digits)
    ELSE IF c = "." THEN 46
    ELSE IF c = "/" THEN 47
    ELSE 0

\* s < t as Go compares strings
RECURSIVE StrLess(_, _)
StrLess(s, t) ==
    IF t = <<>> THEN FALSE
    ELSE IF s = <<>> THEN TRUE
    ELSE IF Code(Head(s)) # Code(Head(t)) THEN Code(Head(s)) < Code(Head(t))
    ELSE StrLess(Tail(s), Tail(t))

IsPathSeparator(c) == c = "/"

\* the lower-casing left out
NoLower(s) == s

\* strings.ToLower, on the ASCII letters
Chars == {Upper[i] : i \in DOMAIN Upper} \cup {Lower[i] : i \in DOMAIN Lower}
         \cup {Digits[i] : i \in DOMAIN Digits} \cup {".", "/"}
LowerOf == [c \in Chars |-> IF IndexIn(c, Upper) > 0 THEN Lower[IndexIn(c, Upper)] ELSE c]
ToLower(s) == [i \in DOMAIN s |-> LowerOf[s[i]]]

\* filepath.Ext: the suffix beginning at the final dot in the final element
\* of path; empty if there is no dot
RECURSIVE ExtFrom(_, _)
ExtFrom(path, i) ==
    IF i < 1 \/ IsPathSeparator(path[i]) THEN <<>>
    ELSE IF path[i] = "." THEN SubSeq(path, i, Len(path))
    ELSE ExtFrom(path, i - 1)
\* an extension that a leading dot of the final element does not begin
ExtNoHidden(path) ==
    LET e == ExtFrom(path, Len(path)) IN
    IF e = <<>> THEN <<>>
    ELSE IF Len(e) = Len(path) THEN <<>>
    ELSE IF IsPathSeparator(path[Len(path) - Len(e)]) THEN <<>>
    ELSE e

Ext(path) == ExtFrom(path, Len(path))

\* filepath.Join(path, name) for a clean path and a single name
Join(path, name) == path \o <<"/">> \o name

\* a table with a third kind, which the statistics do not count
extensionsWithPhoto ==
    (<<".","m","p","4">> :> "video") @@
    (<<".","j","p","g">> :> "photo") @@
    (<<".","p","n","g">> :> "image")

supportedExtensions ==
    (<<".","m","p","4">> :> "video") @@
    (<<".","a","v","i">> :> "video") @@
    (<<".","m","k","v">> :> "video") @@
    (<<".","m","o","v">> :> "video") @@
    (<<".","w","m","v">> :> "video") @@
    (<<".","f","l","v">> :> "video") @@
    (<<".","w","e","b","m">> :> "video") @@
    (<<".","j","p","g">> :> "image") @@
    (<<".","j","p","e","g">> :> "image") @@
    (<<".","p","n","g">> :> "image") @@
    (<<".","g","i","f">> :> "image") @@
    (<<".","w","e","b","p">> :> "image")

\* ------------------------------------------------------------ filesystem
\* The tree the walks run over; the process's working directory is /w.
\*   /w/m/            directory
\*   /w/m/.mp4        hidden file whose whole name is an extension
\*   /w/m/mp4         file without extension
\*   /w/m/s.gif/      directory whose name carries a supported extension
\*   /w/m/s.gif/d.PNG image, upper-case extension
\*   /w/m/t.txt       file with an unsupported extension
\*   /w/m/z.Jpg       image, mixed-case extension
Nodes == {"m", "hid", "noext", "s", "d", "t", "z"}
Dirs == {"m", "s"}
Files == Nodes \ Dirs

Parent == [n \in Nodes |->
    CASE n = "m" -> "top"
      [] n = "d" -> "s"
      [] OTHER -> "m"]

Name == [n \in Nodes |->
    CASE n = "m" -> <<"m">>
      [] n = "hid" -> <<".","m","p","4">>
      [] n = "z" -> <<"z",".","J","p","g">>
      [] n = "noext" -> <<"m","p","4">>
      [] n = "s" -> <<"s",".","g","i","f">>
      [] n = "d" -> <<"d",".","P","N","G">>
      [] n = "t" -> <<"t",".","t","x","t">>]

InitSize == [n \in Files |->
    CASE n = "hid" -> 10
      [] n = "z" -> 20
      [] n = "noext" -> 5
      [] n = "d" -> 30
      [] n = "t" -> 5]

\* the request bodies' "path" values: /w/m, its subdirectory spelled from
\* the root and from the working directory, a path that does not exist, and
\* the empty string
AbsRoot == <<"/","w","/","m">>
RelRoot == <<"m","/","s",".","g","i","f">>
SubRoot == <<"/","w","/","m","/","s",".","g","i","f">>
NoRoot == <<"/","w","/","x">>
Roots == {
    [path |-> AbsRoot, node |-> "m"],
    [path |-> RelRoot, node |-> "s"],
    [path |-> SubRoot, node |-> "s"],
    [path |-> NoRoot, node |-> "none"],
    [path |-> <<>>, node |-> "none"] }

\* what the environment does to the tree: it deletes t.txt or the directory
\* s.gif, makes a directory unreadable, appends to z.Jpg
Removable == {"t", "s"}
Growable == {"z"}

RECURSIVE Present(_, _)
Present(f, n) ==
    /\ n \in Nodes
    /\ n \notin f.gone
    /\ (Parent[n] = "top" \/ Present(f, Parent[n]))

\* os.Lstat: the FileInfo of a node, or an error
Lstat(f, n) ==
    IF Present(f, n)
    THEN [err |-> FALSE, isDir |-> n \in Dirs, name |-> Name[n],
          size |-> IF n \in Files THEN f.size[n] ELSE 0]
    ELSE [err |-> TRUE, isDir |-> FALSE, name |-> <<>>, size |-> 0]

RECURSIVE SortNodes(_)
SortNodes(S) ==
    IF S = {} THEN <<>>
    ELSE LET n == CHOOSE x \in S : \A y \in S \ {x} : StrLess(Name[x], Name[y])
         IN <<n>> \o SortNodes(S \ {n})

\* every directory's entries in the order sort.Strings gives them
Sorted == [n \in Nodes |-> SortNodes({c \in Nodes : Parent[c] = n})]

\* readDirNames: the directory's entries sorted by name, or an error
ReadDirNames(f, n) ==
    IF n \in f.noread
    THEN [err |-> TRUE, names |-> <<>>]
    ELSE LET There(c) == c \notin f.gone
         IN [err |-> FALSE, names |-> SelectSeq(Sorted[n], There)]

\* --------------------------------------------------------------- catalog
\* path ends with the element name
EndsWithTail(path, name) ==
    /\ Len(name) <= Len(path)
    /\ SubSeq(path, Len(path) - Len(name) + 1, Len(path)) = name

\* One row of table media (struct MediaItem).
MediaItem(id, path, filename, size, type, created_at) ==
    [id |-> id, path |-> path, filename |-> filename, size |-> size,
     type |-> type, created_at |-> created_at]

\* the existence query keyed by the file's base name instead of its path
CountFilename(d, path) ==
    Cardinality({i \in DOMAIN d : EndsWithTail(path, <<"/">> \o d[i].filename)})

\* SELECT COUNT(*) FROM media WHERE path = ?
CountPath(d, path) == Cardinality({i \in DOMAIN d : d[i].path = path})

\* SELECT COUNT(*) FROM media
CountAll(d) == Cardinality(DOMAIN d)

\* SELECT COUNT(*) FROM media WHERE type = ?
CountType(d, type) == Cardinality({i \in DOMAIN d : d[i].type = type})

\* id INTEGER PRIMARY KEY AUTOINCREMENT
NextId(d) ==
    IF d = <<>> THEN 1
    ELSE 1 + (CHOOSE x \in {d[i].id : i \in DOMAIN d} :
                  \A y \in {d[i].id : i \in DOMAIN d} : y <= x)

\* the insert into a table whose column path is not UNIQUE
InsertNoUnique(d, m, t) ==
    [err |-> FALSE,
     db |-> Append(d, MediaItem(NextId(d), m.path, m.filename, m.size, m.type, t))]

\* INSERT INTO media (path, filename, size, type): the UNIQUE constraint on
\* path rejects a second row with the same path; id and created_at are the
\* column defaults.
InsertMedia(d, m, t) ==
    IF \E i \in DOMAIN d : d[i].path = m.path
    THEN [err |-> TRUE, db |-> d]
    ELSE [err |-> FALSE,
          db |-> Append(d, MediaItem(NextId(d), m.path, m.filename, m.size, m.type, t))]

\* a walk function that skips whatever the walk could not stat or read
WalkFnSwallow(d, path, info, err, getErr, t) ==
    IF err THEN [ret |-> "nil", db |-> d, inc |-> 0, warn |-> FALSE]
    ELSE IF info.isDir THEN [ret |-> "nil", db |-> d, inc |-> 0, warn |-> FALSE]
    ELSE LET ext == ToLower(Ext(path)) IN
         IF ext \notin DOMAIN supportedExtensions
         THEN [ret |-> "nil", db |-> d, inc |-> 0, warn |-> FALSE]
         ELSE IF ~getErr /\ CountPath(d, path) > 0
         THEN [ret |-> "nil", db |-> d, inc |-> 0, warn |-> FALSE]
         ELSE LET ins == InsertMedia(d,
                             [path |-> path, filename |-> info.name,
                              size |-> info.size,
                              type |-> supportedExtensions[ext]], t)
              IN [ret |-> "nil", db |-> ins.db,
                  inc |-> IF ins.err THEN 0 ELSE 1, warn |-> ins.err]

\* a walk function that skips a directory it could not read
WalkFnSkipUnreadable(d, path, info, err, getErr, t) ==
    IF err /\ ~info.isDir THEN [ret |-> "err", db |-> d, inc |-> 0, warn |-> FALSE]
    ELSE IF info.isDir THEN [ret |-> "nil", db |-> d, inc |-> 0, warn |-> FALSE]
    ELSE LET ext == ToLower(Ext(path)) IN
         IF ext \notin DOMAIN supportedExtensions
         THEN [ret |-> "nil", db |-> d, inc |-> 0, warn |-> FALSE]
         ELSE IF ~getErr /\ CountPath(d, path) > 0
         THEN [ret |-> "nil", db |-> d, inc |-> 0, warn |-> FALSE]
         ELSE LET ins == InsertMedia(d,
                             [path |-> path, filename |-> info.name,
                              size |-> info.size,
                              type |-> supportedExtensions[ext]], t)
              IN [ret |-> "nil", db |-> ins.db,
                  inc |-> IF ins.err THEN 0 ELSE 1, warn |-> ins.err]

\* a walk function that refreshes the size of a file already cataloged
WalkFnRefresh(d, path, info, err, getErr, t) ==
    IF err THEN [ret |-> "err", db |-> d, inc |-> 0, warn |-> FALSE]
    ELSE IF info.isDir THEN [ret |-> "nil", db |-> d, inc |-> 0, warn |-> FALSE]
    ELSE LET ext == ToLower(Ext(path)) IN
         IF ext \notin DOMAIN supportedExtensions
         THEN [ret |-> "nil", db |-> d, inc |-> 0, warn |-> FALSE]
         ELSE IF ~getErr /\ CountPath(d, path) > 0
         THEN [ret |-> "nil", inc |-> 0, warn |-> FALSE,
               db |-> [i \in DOMAIN d |->
                         IF d[i].path = path
                         THEN [d[i] EXCEPT !.size = info.size] ELSE d[i]]]
         ELSE LET ins == InsertMedia(d,
                             [path |-> path, filename |-> info.name,
                              size |-> info.size,
                              type |-> supportedExtensions[ext]], t)
              IN [ret |-> "nil", db |-> ins.db,
                  inc |-> IF ins.err THEN 0 ELSE 1, warn |-> ins.err]

\* a walk function that counts the file whether or not the insert failed
WalkFnCountAlways(d, path, info, err, getErr, t) ==
    IF err THEN [ret |-> "err", db |-> d, inc |-> 0, warn |-> FALSE]
    ELSE IF info.isDir THEN [ret |-> "nil", db |-> d, inc |-> 0, warn |-> FALSE]
    ELSE LET ext == ToLower(Ext(path)) IN
         IF ext \notin DOMAIN supportedExtensions
         THEN [ret |-> "nil", db |-> d, inc |-> 0, warn |-> FALSE]
         ELSE IF ~getErr /\ CountPath(d, path) > 0
         THEN [ret |-> "nil", db |-> d, inc |-> 0, warn |-> FALSE]
         ELSE LET ins == InsertMedia(d,
                             [path |-> path, filename |-> info.name,
                              size |-> info.size,
                              type |-> supportedExtensions[ext]], t)
              IN [ret |-> "nil", db |-> ins.db, inc |-> 1, warn |-> ins.err]

\* a walk function that reports a file already cataloged as an error
WalkFnDupErr(d, path, info, err, getErr, t) ==
    IF err THEN [ret |-> "err", db |-> d, inc |-> 0, warn |-> FALSE]
    ELSE IF info.isDir THEN [ret |-> "nil", db |-> d, inc |-> 0, warn |-> FALSE]
    ELSE LET ext == ToLower(Ext(path)) IN
         IF ext \notin DOMAIN supportedExtensions
         THEN [ret |-> "nil", db |-> d, inc |-> 0, warn |-> FALSE]
         ELSE IF ~getErr /\ CountPath(d, path) > 0
         THEN [ret |-> "err", db |-> d, inc |-> 0, warn |-> FALSE]
         ELSE LET ins == InsertMedia(d,
                             [path |-> path, filename |-> info.name,
                              size |-> info.size,
                              type |-> supportedExtensions[ext]], t)
              IN [ret |-> "nil", db |-> ins.db,
                  inc |-> IF ins.err THEN 0 ELSE 1, warn |-> ins.err]

\* The walk function passed to filepath.Walk: what it returns ("nil" or
\* "err"), the table after it, what it adds to count, and whether it logged
\* the warning of a failed insert. getErr says that the existence query
\* failed.
WalkFn(d, path, info, err, getErr, t) ==
    IF err THEN [ret |-> "err", db |-> d, inc |-> 0, warn |-> FALSE]
    ELSE IF info.isDir THEN [ret |-> "nil", db |-> d, inc |-> 0, warn |-> FALSE]
    ELSE LET ext == ToLower(Ext(path)) IN
         IF ext \notin DOMAIN supportedExtensions
         THEN [ret |-> "nil", db |-> d, inc |-> 0, warn |-> FALSE]
         ELSE IF ~getErr /\ CountPath(d, path) > 0
         THEN [ret |-> "nil", db |-> d, inc |-> 0, warn |-> FALSE]
         ELSE LET ins == InsertMedia(d,
                             [path |-> path, filename |-> info.name,
                              size |-> info.size,
                              type |-> supportedExtensions[ext]], t)
              IN [ret |-> "nil", db |-> ins.db,
                  inc |-> IF ins.err THEN 0 ELSE 1, warn |-> ins.err]

\* SELECT * FROM media [WHERE type = ?] ORDER BY created_at DESC. SQL leaves
\* the order of rows with equal created_at open: asc says whether such rows
\* come out in rowid order or in reverse rowid order.
\* the order of ORDER BY created_at ASC
ComesBeforeAsc(d, i, j, asc) ==
    \/ d[i].created_at < d[j].created_at
    \/ d[i].created_at = d[j].created_at /\ (IF asc THEN i < j ELSE j < i)

ComesBefore(d, i, j, asc) ==
    \/ d[i].created_at > d[j].created_at
    \/ d[i].created_at = d[j].created_at /\ (IF asc THEN i < j ELSE j < i)

OrderByCreatedDesc(d, I, asc) ==
    [k \in 1..Cardinality(I) |->
        d[CHOOSE i \in I : Cardinality({j \in I : ComesBefore(d, j, i, asc)}) = k - 1]]

SelectMedia(d, mediaType, asc) ==
    IF mediaType # ""
    THEN OrderByCreatedDesc(d, {i \in DOMAIN d : d[i].type = mediaType}, asc)
    ELSE OrderByCreatedDesc(d, DOMAIN d, asc)

\* ------------------------------------------------------------- processes
Scanners == {1, 2}
SeqScanners == {1}
MediaTypes == {"", "video", "image"}

\* the variable media of the walk function before it is built
NoMedia == [path |-> <<>>, filename |-> <<>>, size |-> 0, type |-> ""]

IdleScan ==
    [pc |-> "idle", root |-> <<>>, rootNode |-> "none", todo |-> <<>>,
     count |-> 0, status |-> 0, dbBefore |-> <<>>, fsBefore |-> 0,
     repeat |-> FALSE, errNode |-> "none", errKind |-> "none", warned |-> FALSE,
     pending |-> NoMedia, counted |-> {}]
IdleStats == [pc |-> 0, total |-> 0, videos |-> 0, images |-> 0]
IdleMedia == [pc |-> "idle", type |-> "", items |-> <<>>]

Init ==
    /\ db = <<>>
    /\ fs = [gone |-> {}, noread |-> {}, size |-> InitSize]
    /\ fsver = 0
    /\ now = 0
    /\ scan = [p \in Scanners |-> IdleScan]
    /\ stats = IdleStats
    /\ media = IdleMedia

\* no handler is in the middle of its work
Quiet ==
    /\ \A p \in Scanners : scan[p].pc # "walk"
    /\ stats.pc \in {0, 3}

\* the request that starts is the one that follows a successful scan of the
\* same path directly, the tree being as it was when that scan began
Repeats(sc, r) ==
    /\ sc.pc = "done"
    /\ sc.status = 200
    /\ sc.root = r.path
    /\ sc.fsBefore = fsver

\* POST /api/scan arrives: decode the body, reject an empty path, start the
\* walk at req.Path with count = 0.
StartScan(p, r) ==
    /\ Quiet
    /\ stats' = IdleStats
    /\ media' = IdleMedia
    /\ IF r.path = <<>>
       THEN /\ scan' = [q \in Scanners |->
                  IF q = p THEN [IdleScan EXCEPT !.pc = "done", !.status = 400,
                                                 !.dbBefore = db, !.fsBefore = fsver]
                  ELSE IdleScan]
       ELSE /\ scan' = [q \in Scanners |->
                  IF q = p
                  THEN [IdleScan EXCEPT
                          !.pc = "walk", !.root = r.path, !.rootNode = r.node,
                          !.todo = <<[path |-> r.path, node |-> r.node]>>,
                          !.dbBefore = db, !.fsBefore = fsver,
                          !.repeat = Repeats(scan[p], r)]
                  ELSE IdleScan]
    /\ UNCHANGED <<db, fs, fsver, now>>

\* One step of filepath.Walk inside scanDirectory: lstat the next entry,
\* read it if it is a directory, call the walk function, and end the
\* request when the walk ends (200 with count) or the walk function returns
\* an error (500).
ScanStep(p, getErr) ==
    /\ scan[p].pc = "walk"
    /\ LET sc == scan[p]
           e == Head(sc.todo)
           info == Lstat(fs, e.node)
           rd == IF ~info.err /\ info.isDir
                 THEN ReadDirNames(fs, e.node)
                 ELSE [err |-> FALSE, names |-> <<>>]
           r == WalkFn(db, e.path, info, info.err \/ rd.err, getErr, now)
           children == [i \in DOMAIN rd.names |->
                           [path |-> Join(e.path, Name[rd.names[i]]),
                            node |-> rd.names[i]]]
           rest == IF info.err \/ rd.err THEN Tail(sc.todo)
                   ELSE children \o Tail(sc.todo)
           ended == [sc EXCEPT
                       !.count = sc.count + r.inc, !.todo = rest,
                       !.pc = IF r.ret = "err" \/ rest = <<>> THEN "done" ELSE "walk",
                       !.status = IF r.ret = "err" THEN 500
                                  ELSE IF rest = <<>> THEN 200 ELSE 0,
                       !.warned = sc.warned \/ r.warn,
                       !.counted = IF r.inc > 0 THEN sc.counted \cup {e.path}
                                   ELSE sc.counted,
                       !.errNode = IF info.err \/ rd.err THEN e.node ELSE sc.errNode,
                       !.errKind = IF info.err THEN "lstat"
                                   ELSE IF rd.err THEN "readdir" ELSE sc.errKind]
       IN /\ db' = r.db
          /\ scan' = [scan EXCEPT ![p] = ended]
    /\ UNCHANGED <<fs, fsver, now, stats, media>>

\* ---- the handlers as net/http runs them: each request in its own
\* goroutine, every call of the store a step of its own

\* POST /api/scan arrives while other requests may be under way
ConcStartScan(p, r) ==
    /\ scan[p].pc = "idle"
    /\ r.path # <<>>
    /\ scan' = [scan EXCEPT ![p] =
                  [IdleScan EXCEPT
                      !.pc = "walk", !.root = r.path, !.rootNode = r.node,
                      !.todo = <<[path |-> r.path, node |-> r.node]>>,
                      !.dbBefore = db, !.fsBefore = fsver]]
    /\ UNCHANGED <<db, fs, fsver, now, stats, media>>

\* the walk function gets as far as the INSERT: the entry is a file with a
\* supported extension, and the existence query failed or found no row
ReachesInsert(d, path, info, err, getErr) ==
    /\ ~err
    /\ ~info.isDir
    /\ ToLower(Ext(path)) \in DOMAIN supportedExtensions
    /\ ~(~getErr /\ CountPath(d, path) > 0)

\* One step of the walk up to and including the existence query: when the
\* walk function goes on to the insert, the scan stops before it with the
\* MediaItem built; otherwise the step is the whole visit of the entry.
ScanCheck(p, getErr) ==
    /\ scan[p].pc = "walk"
    /\ LET e == Head(scan[p].todo)
           info == Lstat(fs, e.node)
       IN IF ReachesInsert(db, e.path, info, info.err, getErr)
          THEN /\ scan' = [scan EXCEPT ![p] =
                     [@ EXCEPT !.pc = "insert",
                               !.pending = [path |-> e.path, filename |-> info.name,
                                            size |-> info.size,
                                            type |-> supportedExtensions[ToLower(Ext(e.path))]]]]
               /\ UNCHANGED <<db, fs, fsver, now, stats, media>>
          ELSE ScanStep(p, getErr)

\* The INSERT of the walk function and what follows it: count++ or the
\* warning, then the walk goes on or ends. busy says that sqlite refused the
\* write because another connection holds the lock.
ScanInsert(p, busy) ==
    /\ scan[p].pc = "insert"
    /\ LET sc == scan[p]
           ins == IF busy THEN [err |-> TRUE, db |-> db]
                  ELSE InsertMedia(db, sc.pending, now)
           rest == Tail(sc.todo)
       IN /\ db' = ins.db
          /\ scan' = [scan EXCEPT ![p] =
                [sc EXCEPT
                   !.count = IF ins.err THEN sc.count ELSE sc.count + 1,
                   !.counted = IF ins.err THEN sc.counted
                               ELSE sc.counted \cup {sc.pending.path},
                   !.warned = sc.warned \/ ins.err,
                   !.pending = NoMedia,
                   !.todo = rest,
                   !.pc = IF rest = <<>> THEN "done" ELSE "walk",
                   !.status = IF rest = <<>> THEN 200 ELSE 0]]
    /\ UNCHANGED <<fs, fsver, now, stats, media>>

\* GET /api/stats arrives while other requests may be under way
ConcStatsTotal ==
    /\ stats.pc \in {0, 3}
    /\ stats' = [IdleStats EXCEPT !.pc = 1, !.total = CountAll(db)]
    /\ UNCHANGED <<db, fs, fsver, now, scan, media>>

\* GET /api/stats, first query: SELECT COUNT(*) FROM media
StatsTotal ==
    /\ Quiet
    /\ stats' = [IdleStats EXCEPT !.pc = 1, !.total = CountAll(db)]
    /\ scan' = [q \in Scanners |-> IdleScan]
    /\ media' = IdleMedia
    /\ UNCHANGED <<db, fs, fsver, now>>

\* second query: SELECT COUNT(*) FROM media WHERE type = 'video'
StatsVideos ==
    /\ stats.pc = 1
    /\ stats' = [stats EXCEPT !.pc = 2, !.videos = CountType(db, "video")]
    /\ UNCHANGED <<db, fs, fsver, now, scan, media>>

\* third query: SELECT COUNT(*) FROM media WHERE type = 'image', then the
\* response is written
StatsImages ==
    /\ stats.pc = 2
    /\ stats' = [stats EXCEPT !.pc = 3, !.images = CountType(db, "image")]
    /\ UNCHANGED <<db, fs, fsver, now, scan, media>>

\* GET /api/media[?type=...]
GetMediaItems(mediaType, asc) ==
    /\ Quiet
    /\ media' = [pc |-> "done", type |-> mediaType,
                 items |-> SelectMedia(db, mediaType, asc)]
    /\ scan' = [q \in Scanners |-> IdleScan]
    /\ stats' = IdleStats
    /\ UNCHANGED <<db, fs, fsver, now>>

\* ----------------------------------------------------------- environment
\* a file or a directory (with what is below it) is deleted
Remove(n) ==
    /\ fsver < MaxFsEvents
    /\ Present(fs, n)
    /\ fs' = [fs EXCEPT !.gone = @ \cup {n}]
    /\ fsver' = fsver + 1
    /\ UNCHANGED <<db, now, scan, stats, media>>

\* a directory loses its read permission
Chmod(n) ==
    /\ fsver < MaxFsEvents
    /\ Present(fs, n)
    /\ n \notin fs.noread
    /\ fs' = [fs EXCEPT !.noread = @ \cup {n}]
    /\ fsver' = fsver + 1
    /\ UNCHANGED <<db, now, scan, stats, media>>

\* a file is appended to
Grow(n) ==
    /\ fsver < MaxFsEvents
    /\ Present(fs, n)
    /\ fs' = [fs EXCEPT !.size[n] = @ + 1]
    /\ fsver' = fsver + 1
    /\ UNCHANGED <<db, now, scan, stats, media>>

\* a second passes
Tick ==
    /\ now < MaxClock
    /\ now' = now + 1
    /\ UNCHANGED <<db, fs, fsver, scan, stats, media>>

\* The requests are served one at a time (a request starts when no other is
\* in the middle of its work), the environment acts between any two steps,
\* and the store answers every query (the existence query does not fail).
Next ==
    \/ \E p \in SeqScanners, r \in Roots : StartScan(p, r)
    \/ \E p \in SeqScanners : ScanStep(p, FALSE)
    \/ StatsTotal
    \/ StatsVideos
    \/ StatsImages
    \/ \E t \in MediaTypes, asc \in BOOLEAN : GetMediaItems(t, asc)
    \/ \E n \in Removable : Remove(n)
    \/ \E n \in Dirs : Chmod(n)
    \/ \E n \in Growable : Grow(n)
    \/ Tick

Spec == Init /\ [][Next]_vars

\* As Next, with a store whose existence query may fail: the walk function
\* then goes on to the insert, which the UNIQUE constraint decides.
NextGetErr ==
    \/ \E p \in SeqScanners, r \in Roots : StartScan(p, r)
    \/ \E p \in SeqScanners, getErr \in BOOLEAN : ScanStep(p, getErr)
    \/ StatsTotal
    \/ StatsVideos
    \/ StatsImages
    \/ \E t \in MediaTypes, asc \in BOOLEAN : GetMediaItems(t, asc)
    \/ \E n \in Removable : Remove(n)
    \/ \E n \in Dirs : Chmod(n)
    \/ \E n \in Growable : Grow(n)
    \/ Tick

SpecGetErr == Init /\ [][NextGetErr]_vars

\* Two scan requests that overlap, each started once, their store calls
\* interleaved in every order, while entries of the tree vanish or become
\* unreadable.
NextConc ==
    \/ \E p \in Scanners, r \in Roots : ConcStartScan(p, r)
    \/ \E p \in Scanners, getErr \in BOOLEAN : ScanCheck(p, getErr)
    \/ \E p \in Scanners, busy \in BOOLEAN : ScanInsert(p, busy)
    \/ \E n \in Removable : Remove(n)
    \/ \E n \in Dirs : Chmod(n)

SpecConc == Init /\ [][NextConc]_vars

\* A scan request and statistics requests that overlap: the three queries
\* of getStats are interleaved with the visits of the scan in every order,
\* while the environment acts.
NextStats ==
    \/ \E p \in SeqScanners, r \in Roots : ConcStartScan(p, r)
    \/ \E p \in SeqScanners : ScanStep(p, FALSE)
    \/ ConcStatsTotal
    \/ StatsVideos
    \/ StatsImages
    \/ \E n \in Removable : Remove(n)
    \/ \E n \in Dirs : Chmod(n)
    \/ \E n \in Growable : Grow(n)
    \/ Tick

SpecStats == Init /\ [][NextStats]_vars

\* ------------------------------------------------- vocabulary of the claims
DbPaths(d) == {d[i].path : i \in DOMAIN d}

IsPrefix(s, t) == Len(s) <= Len(t) /\ \A i \in DOMAIN s : t[i] = s[i]

\* n is root or lies below it
RECURSIVE Under(_, _)
Under(n, root) ==
    /\ n \in Nodes
    /\ (n = root \/ Under(Parent[n], root))

\* the path of n for a walk that starts at rootNode spelled rootPath
RECURSIVE PathFrom(_, _, _)
PathFrom(rootPath, rootNode, n) ==
    IF n = rootNode THEN rootPath
    ELSE PathFrom(rootPath, rootNode, Parent[n]) \o <<"/">> \o Name[n]

\* the order in which a walk of the whole tree below n visits the nodes
RECURSIVE Preorder(_)
RECURSIVE PreorderAll(_)
Preorder(n) == <<n>> \o PreorderAll(Sorted[n])
PreorderAll(ns) == IF ns = <<>> THEN <<>> ELSE Preorder(Head(ns)) \o PreorderAll(Tail(ns))
WalkOrder == Preorder("m")
Position(n) == CHOOSE i \in DOMAIN WalkOrder : WalkOrder[i] = n

\* the documented table of extensions
VideoExts == {<<".","m","p","4">>, <<".","a","v","i">>, <<".","m","k","v">>,
              <<".","m","o","v">>, <<".","w","m","v">>, <<".","f","l","v">>,
              <<".","w","e","b","m">>}
ImageExts == {<<".","j","p","g">>, <<".","j","p","e","g">>, <<".","p","n","g">>,
              <<".","g","i","f">>, <<".","w","e","b","p">>}

SameLetter(c, e) == c = e \/ \E i \in DOMAIN Upper : {c, e} = {Upper[i], Lower[i]}

\* s ends with e, letter case apart
EndsWithCI(s, e) ==
    /\ Len(e) <= Len(s)
    /\ \A i \in DOMAIN e : SameLetter(s[Len(s) - Len(e) + i], e[i])

DocumentedKind(s) ==
    IF \E e \in VideoExts : EndsWithCI(s, e) THEN "video"
    ELSE IF \E e \in ImageExts : EndsWithCI(s, e) THEN "image"
    ELSE "none"

\* the scan request ended with a count, over a tree that did not change
\* while it ran
CleanSuccess(sc) == sc.pc = "done" /\ sc.status = 200 /\ sc.fsBefore = fsver

\* the files of the tree below the root of sc that the documented table
\* classifies
Classifiable(sc) ==
    {f \in Files : /\ Present(fs, f)
                   /\ Under(f, sc.rootNode)
                   /\ DocumentedKind(Name[f]) # "none"}

PathOf(sc, f) == PathFrom(sc.root, sc.rootNode, f)

\* ---------------------------------------------------------------- claims

\* C1: a scan that ends with a count over an unchanged tree returns the
\* number of classifiable files below its root that the catalog did not
\* hold when it began; when it directly repeats a successful scan of the
\* same root over the same unchanged tree it returns 0 and leaves the
\* catalog as the first run left it.
C1_ScanIdempotent ==
    \A p \in Scanners :
        LET sc == scan[p] IN
        CleanSuccess(sc) =>
            /\ sc.count = Cardinality({f \in Classifiable(sc) :
                                          PathOf(sc, f) \notin DbPaths(sc.dbBefore)})
            /\ sc.repeat => (sc.count = 0 /\ db = sc.dbBefore)

\* a second run of the scan of /w/m has ended, the first having filled the
\* catalog with the three media files
C1_Witness ==
    \E p \in Scanners :
        /\ CleanSuccess(scan[p])
        /\ scan[p].repeat
        /\ scan[p].root = AbsRoot
        /\ scan[p].count = 0
        /\ Len(db) = 3

\* C2: no two rows of the catalog have the same path, whatever scans ran;
\* and the step of a scan that visits a file whose path is cataloged
\* leaves the table as it is and does not end the scan with an error.
PathUnique == \A i, j \in DOMAIN db : db[i].path = db[j].path => i = j

VisitsCataloged(p) ==
    /\ scan[p].pc = "walk"
    /\ scan'[p] # scan[p]
    /\ Head(scan[p].todo).node \in Files
    /\ Present(fs, Head(scan[p].todo).node)
    /\ Head(scan[p].todo).path \in DbPaths(db)

C2_PathUnique ==
    [][/\ PathUnique'
       /\ \A p \in Scanners :
             VisitsCataloged(p) => (db' = db /\ scan'[p].status # 500)]_vars

\* /w/m/s.gif was scanned, then /w/m, which overlaps it: the second scan
\* met d.PNG cataloged and added the two other files
C2_Witness ==
    \E p \in Scanners :
        /\ CleanSuccess(scan[p])
        /\ scan[p].root = AbsRoot
        /\ Len(scan[p].dbBefore) = 1
        /\ scan[p].dbBefore[1].path = PathFrom(SubRoot, "s", "d")
        /\ scan[p].count = 2
        /\ Len(db) = 3

\* C3: every row's kind is the one the documented table gives for the
\* extension of its path, letter case apart (so it is video or image, and no
\* file with another extension has a row); and after a scan that ended with
\* a count over an unchanged tree every file below the root with an
\* extension of the table, in any letter case, has its row.
C3_Classification ==
    /\ \A i \in DOMAIN db :
          /\ db[i].type \in {"video", "image"}
          /\ db[i].type = DocumentedKind(db[i].path)
    /\ \A p \in Scanners :
          CleanSuccess(scan[p]) =>
              \A f \in Classifiable(scan[p]) :
                  \E i \in DOMAIN db :
                      /\ db[i].path = PathOf(scan[p], f)
                      /\ db[i].type = DocumentedKind(Name[f])

\* /w/m was scanned with all its files there: z.Jpg and d.PNG are rows of
\* kind image, .mp4 a row of kind video, t.txt and mp4 are not rows
C3_Witness ==
    /\ \E p \in Scanners : CleanSuccess(scan[p]) /\ scan[p].root = AbsRoot
    /\ fs.gone = {}
    /\ {<<db[i].filename, db[i].type>> : i \in DOMAIN db} =
           {<<Name["z"], "image">>, <<Name["d"], "image">>, <<Name["hid"], "video">>}

\* C4: the response of GET /api/stats has total = videos + images, and total
\* is the number of rows GET /api/media returns without a filter; an
\* unfiltered response of GET /api/media has as many rows as the two kinds
\* count together.
C4_CountConsistency ==
    /\ stats.pc = 3 =>
          /\ stats.total = stats.videos + stats.images
          /\ \A asc \in BOOLEAN : stats.total = Len(SelectMedia(db, "", asc))
    /\ (media.pc = "done" /\ media.type = "") =>
          Len(media.items) = CountType(db, "video") + CountType(db, "image")

\* the statistics after a scan of /w/m: 3 rows, 1 video, 2 images
C4_Witness ==
    /\ stats.pc = 3
    /\ stats.total = 3
    /\ stats.videos = 1
    /\ stats.images = 2

\* the rows the scan sc has added
AddedBy(sc) == DbPaths(db) \ DbPaths(sc.dbBefore)

\* C5: a scan in which the walk reported an error for a single file (the
\* file vanished after its directory was read) skips the file, ends with a
\* count, and has cataloged every other classifiable file below its root.
C5_PerFileErrorSkipped ==
    \A p \in Scanners :
        LET sc == scan[p] IN
        (sc.pc = "done" /\ sc.errKind = "lstat" /\ sc.errNode \in Files) =>
            /\ sc.status = 200
            /\ \A f \in Classifiable(sc) : PathOf(sc, f) \in DbPaths(db)

\* the root of sc is missing or cannot be read, and has been so since the
\* request came in
RootUnusable(sc) ==
    /\ sc.fsBefore = fsver
    /\ ~Present(fs, sc.rootNode) \/ sc.rootNode \in fs.noread

\* C6: a scan whose root does not exist or cannot be read ends with an
\* error (500; 400 for the empty path), never with a count, and leaves the
\* catalog as it was.
C6_BadRootIsError ==
    \A p \in Scanners :
        LET sc == scan[p] IN
        (sc.pc = "done" /\ RootUnusable(sc)) =>
            /\ sc.status = IF sc.root = <<>> THEN 400 ELSE 500
            /\ db = sc.dbBefore

\* /w/x, which does not exist, was scanned with rows in the catalog
C6_Witness ==
    \E p \in Scanners :
        /\ scan[p].pc = "done"
        /\ scan[p].root = NoRoot
        /\ scan[p].status = 500
        /\ Len(db) >= 1

\* C7: a scan in which a directory could not be read ends with an error;
\* the rows it had added stay (the catalog is what it was before, followed
\* by count new rows), and no file that comes later in the walk has been
\* added.
C7_AbortKeepsProgress ==
    \A p \in Scanners :
        LET sc == scan[p] IN
        (sc.pc = "done" /\ sc.errKind = "readdir") =>
            /\ sc.status = 500
            /\ IsPrefix(sc.dbBefore, db)
            /\ Len(db) = Len(sc.dbBefore) + sc.count
            /\ \A f \in Files :
                  (Under(f, sc.rootNode) /\ Position(f) > Position(sc.errNode))
                      => PathOf(sc, f) \notin AddedBy(sc)

\* the scan of /w/m added .mp4, then failed to read s.gif: the row of .mp4
\* is there, z.Jpg, which is on disk and comes later, is not
C7_Witness ==
    \E p \in Scanners :
        /\ scan[p].pc = "done"
        /\ scan[p].status = 500
        /\ scan[p].root = AbsRoot
        /\ scan[p].errKind = "readdir"
        /\ scan[p].errNode = "s"
        /\ scan[p].count = 1
        /\ PathOf(scan[p], "hid") \in AddedBy(scan[p])
        /\ Present(fs, "z")
        /\ PathOf(scan[p], "z") \notin DbPaths(db)

\* C8: every step of the program keeps every row of the catalog as it is:
\* rows are only added, after the existing ones.
C8_AppendOnly == [][IsPrefix(db, db')]_vars

\* z.Jpg grew after it was cataloged and /w/m was scanned again: the row
\* still has the size of the first scan
C8_Witness ==
    \E p \in Scanners :
        /\ CleanSuccess(scan[p])
        /\ scan[p].root = AbsRoot
        /\ Present(fs, "z")
        /\ \E i \in DOMAIN scan[p].dbBefore :
              /\ db[i].path = PathOf(scan[p], "z")
              /\ db[i].size # fs.size["z"]

\* the paths under which the requests of Roots reach the file f
Spellings(f) == {PathFrom(r.path, r.node, f) : r \in {q \in Roots : Under(f, q.node)}}

\* C9: every row's path is absolute, and a file has one row however the
\* roots of the scans that reached it were spelled.
C9_PathsAbsolute ==
    /\ \A i \in DOMAIN db : Head(db[i].path) = "/"
    /\ \A f \in Files :
          Cardinality({i \in DOMAIN db : db[i].path \in Spellings(f)}) <= 1

\* C10 as stated: no row belongs to a hidden file or to a file without an
\* extension.
C10_HiddenNeverInserted ==
    \A i \in DOMAIN db :
        /\ Head(db[i].filename) # "."
        /\ \E k \in DOMAIN db[i].filename : db[i].filename[k] = "."

\* C10 as amended: no row belongs to a file whose name has no dot; a hidden
\* file is classified as any other, by the suffix from the last dot of its
\* name, so that after a scan that ended with a count over an unchanged tree
\* every hidden file below the root whose name ends in an extension of the
\* table has its row.
C10_NoExtensionNeverInserted ==
    /\ \A i \in DOMAIN db : \E k \in DOMAIN db[i].filename : db[i].filename[k] = "."
    /\ \A p \in Scanners :
          CleanSuccess(scan[p]) =>
              \A f \in Classifiable(scan[p]) :
                  Head(Name[f]) = "." => PathOf(scan[p], f) \in DbPaths(db)

\* /w/m was scanned with the file mp4 in it: .mp4 has a row, mp4 has none
C10_Witness ==
    \E p \in Scanners :
        /\ CleanSuccess(scan[p])
        /\ scan[p].root = AbsRoot
        /\ Present(fs, "noext")
        /\ PathOf(scan[p], "hid") \in DbPaths(db)
        /\ PathOf(scan[p], "noext") \notin DbPaths(db)

\* the rows of a response
Rows(items) == {items[k] : k \in DOMAIN items}

\* C11: the response of GET /api/media holds every row of the catalog once
\* when there is no filter, and with the filter k exactly the rows of kind
\* k, once each; the rows of kind video and those of kind image partition
\* the unfiltered listing; created_at does not increase along the response.
C11_ListAll ==
    media.pc = "done" =>
        LET want == {db[i] : i \in {j \in DOMAIN db :
                                       media.type = "" \/ db[j].type = media.type}}
        IN /\ Rows(media.items) = want
           /\ Len(media.items) = Cardinality(want)
           /\ \A k \in DOMAIN media.items : \A l \in DOMAIN media.items :
                 k < l => media.items[k].created_at >= media.items[l].created_at
           /\ \A asc \in BOOLEAN :
                 /\ Rows(SelectMedia(db, "video", asc)) \cup Rows(SelectMedia(db, "image", asc))
                        = Rows(SelectMedia(db, "", asc))
                 /\ Rows(SelectMedia(db, "video", asc)) \cap Rows(SelectMedia(db, "image", asc))
                        = {}

\* the images were listed after a scan of /w/m during which a second
\* passed: the two rows came out, the newer one first
C11_Witness ==
    /\ media.pc = "done"
    /\ media.type = "image"
    /\ Len(media.items) = 2
    /\ Len(db) = 3
    /\ media.items[1].created_at > media.items[2].created_at

\* the step is a visit by scan p of a file that is on disk, has an
\* extension of the table and is cataloged: its insert, if the walk function
\* gets that far, fails
VisitsDuplicate(p) ==
    /\ VisitsCataloged(p)
    /\ DocumentedKind(Head(scan[p].todo).path) # "none"

\* C12: the visit of a classified file whose insert fails (the existence
\* query failed, the UNIQUE constraint rejects the row) leaves the table and
\* count as they are and goes on to the next entry of the walk; a scan that
\* ends with a count has added exactly count rows.
C12_InsertFailureSkipped ==
    [][\A p \in Scanners :
          /\ VisitsDuplicate(p) =>
                /\ db' = db
                /\ scan'[p].count = scan[p].count
                /\ scan'[p].status # 500
                /\ scan'[p].todo = Tail(scan[p].todo)
          /\ (scan'[p].pc = "done" /\ scan'[p].status = 200) =>
                Len(db') = Len(scan'[p].dbBefore) + scan'[p].count]_vars

\* the scan of /w/m, with d.PNG cataloged before, had an insert fail, went
\* on, added the two other files and returned 2
C12_Witness ==
    \E p \in Scanners :
        /\ scan[p].pc = "done"
        /\ scan[p].status = 200
        /\ scan[p].root = AbsRoot
        /\ scan[p].warned
        /\ scan[p].count = 2
        /\ Len(scan[p].dbBefore) = 1
        /\ PathOf(scan[p], "z") \in AddedBy(scan[p])

\* C13: the response of GET /api/stats has total = videos + images also
\* when a scan inserts rows between its queries.
C13_StatsConsistentUnderScan ==
    stats.pc = 3 => stats.total = stats.videos + stats.images

====
